---- MODULE Spec2Model ----
\* A model of bar.py: the Figure/Bar objects, the axes they draw on, and the
\* operations add_series, set_group, sort, hlines, set_*_settings, ylim, xlim,
\* ylabel, xlabel, render, __enter__ and __exit__.
\*
\* Coordinates are exact rationals: an x coordinate is stored as an integer
\* number of 1/U axis units (U below), bar_spacing as an integer percentage.
\* What the plotting library owns (autoscaled limits, the legend) is kept as the
\* arguments the code passes to it.
EXTENDS Integers, Sequences, FiniteSets, TLC

\* ---------------------------------------------------------------- bounds
\* add_series calls per behaviour
MaxSeries == 2
\* hlines calls per behaviour
MaxHlines == 1
\* depth of nested with-blocks
MaxDepth == 3

\* ---------------------------------------------------------------- inputs
\* (X, Y) of an add_series call: equal and different X lists, equal values,
\* Y shorter than X
AddInputs == {[X |-> <<"a", "b">>, Y |-> <<2, 1>>],
              [X |-> <<"a", "b">>, Y |-> <<1, 1>>],
              [X |-> <<"b", "a">>, Y |-> <<1>>]}
\* (label, color, hatch) of an add_series call
Styles == {[label |-> "s1", color |-> "red", hatch |-> "None"],
           [label |-> "s2", color |-> "blue", hatch |-> "/////"]}
SortLabels == {"s1", "s2"}
GroupNames == {"g1", "g2"}
GroupLists == {<<"a">>, <<"a", "b">>, <<"a", "a">>}
\* (bar_spacing in percent, group_spacing) a Bar is configured with; the first
\* is the default of __init__
Spacings == {[bar |-> 25, group |-> 1], [bar |-> 0, group |-> -1]}

NoLabel == "None"
NoErr == "none"

Min(a, b) == IF a < b THEN a ELSE b
SetMin(S) == CHOOSE x \in S : \A y \in S : x <= y
SetMax(S) == CHOOSE x \in S : \A y \in S : x >= y

RECURSIVE Fact(_)
Fact(n) == IF n <= 1 THEN 1 ELSE n * Fact(n - 1)

\* the longest value list one label can get: every call may repeat a label
MaxListLen == SetMax({Len(in.X) : in \in AddInputs}) * MaxSeries
\* one axis unit, divisible by 200 * nbars_per_label for every reachable nbars
U == 200 * Fact(MaxListLen)

EmptyDict == [k \in {} |-> 0]
\* dict.update(kwargs)
Update(d, kw) ==
    [k \in DOMAIN d \cup DOMAIN kw |-> IF k \in DOMAIN kw THEN kw[k] ELSE d[k]]

\* ---------------------------------------------------------------- state
VARIABLES
    self,       \* the Bar object: a record of its attributes
    axes,       \* self.axes: what has been drawn on it
    err,        \* the exception the last operation raised, or NoErr
    last,       \* the last operation called and its arguments
    calls,      \* the arguments of the add_series calls so far
    rc,         \* mpl.rcParams['hatch.linewidth'], in tenths
    figs,       \* per figure object: out_file and _old_hatch_width
    stack,      \* the with-blocks entered and not yet left, innermost last
    out         \* per figure object: what __exit__ did last

vars == <<self, axes, err, last, calls, rc, figs, stack, out>>

\* an OrderedDict is a sequence of [k, v] items
Keys(d) == {d[i].k : i \in DOMAIN d}
HasKey(d, x) == x \in Keys(d)
Get(d, x) == d[CHOOSE i \in DOMAIN d : d[i].k = x].v

\* ---------------------------------------------------------------- axes
BlankAxes ==
    [bars |-> <<>>,
     xticks |-> [auto |-> TRUE, locs |-> <<>>, labels |-> <<>>, settings |-> EmptyDict],
     texts |-> <<>>,
     hlines |-> <<>>,
     xlim |-> [auto |-> TRUE, lo |-> 0, hi |-> 0],
     ylim |-> [auto |-> TRUE, lo |-> 0, hi |-> 0],
     xlabel |-> "",
     ylabel |-> "",
     legend |-> [on |-> FALSE, settings |-> EmptyDict, entries |-> <<>>]]

\* left edge of rectangle i of a bar call
LeftEdge(b, i) ==
    IF b.settings.align = "edge" THEN b.loc[i] ELSE b.loc[i] - b.width \div 2

\* the rectangles drawn, each as <<left edge, right edge>>
Rects(ax) ==
    UNION {{<<LeftEdge(ax.bars[b], i), LeftEdge(ax.bars[b], i) + ax.bars[b].width>> :
              i \in DOMAIN ax.bars[b].loc} : b \in DOMAIN ax.bars}

\* axes.get_xlim(): the limits set, or the extent of the bars when autoscaling
GetXlim(ax) ==
    IF ~ax.xlim.auto THEN <<ax.xlim.lo, ax.xlim.hi>>
    ELSE IF Rects(ax) = {} THEN <<0, U>>
    ELSE <<SetMin({r[1] : r \in Rects(ax)}), SetMax({r[2] : r \in Rects(ax)})>>

\* axes.get_ylim(): bars start at 0
GetYlim(ax) ==
    IF ~ax.ylim.auto THEN <<ax.ylim.lo, ax.ylim.hi>>
    ELSE LET H == UNION {{ax.bars[b].height[i] : i \in DOMAIN ax.bars[b].height} :
                           b \in DOMAIN ax.bars}
         IN IF H = {} THEN <<0, 1>> ELSE <<SetMin(H \cup {0}), SetMax(H \cup {0})>>

\* ---------------------------------------------------------------- render
\* _render_pre without axes.cla(): what is on the axes stays
RenderPreKeepsAll(ax) == ax

\* _render_pre that removes what was drawn but not the limits and axis labels
RenderPreKeepsLimits(ax) ==
    [BlankAxes EXCEPT !.xlim = ax.xlim, !.ylim = ax.ylim,
                      !.xlabel = ax.xlabel, !.ylabel = ax.ylabel]

\* Figure._render_pre: axes.cla()
RenderPre(ax) == BlankAxes

\* width of one bar: 1/nbars_per_label * (1 - bar_spacing)
BarWidth(nb, s) == (U \div (100 * nb)) * (100 - s)

\* loc without the bar_spacing/2 that centers the cluster
LocNotCentered(origin, i, n, nb, s) ==
    U * (origin + i) + n * BarWidth(nb, s) - U \div 2

\* origin + i + n/nbars_per_label * (1 - bar_spacing) - .5 + bar_spacing/2
Loc(origin, i, n, nb, s) ==
    U * (origin + i) + n * BarWidth(nb, s) - U \div 2 + (U \div 200) * s

\* the axes.bar call of series n (0-based) in _render_single
BarCall(S, data, origin, use_labels, n) ==
    LET nb == Len(data[1].v)
    IN [loc |-> [i \in 1..Len(data) |-> Loc(origin, i - 1, n, nb, S.bar_spacing)],
        height |-> [i \in 1..Len(data) |-> data[i].v[n + 1]],
        width |-> BarWidth(nb, S.bar_spacing),
        label |-> IF use_labels THEN S.labels[n + 1] ELSE NoLabel,
        color |-> S.colors[n + 1],
        hatch |-> S.hatches[n + 1],
        settings |-> S.bar_settings]

\* the series the loop of _render_single draws before x[n], labels[n],
\* colors[n] or hatches[n] raises IndexError (all nbars_per_label when none does)
SeriesDrawn(S, data) ==
    LET nb == Len(data[1].v)
        ok(n) == /\ \A i \in DOMAIN data : Len(data[i].v) > n
                 /\ n < Len(S.labels)
                 /\ n < Len(S.colors)
                 /\ n < Len(S.hatches)
    IN Cardinality({n \in 0..(nb - 1) : \A k \in 0..n : ok(k)})

\* Bar._render_single: the axes after it, and the exception it raised
RenderSingle(S, ax, data, origin, use_labels) ==
    IF Len(data) = 0 THEN [ax |-> ax, err |-> "IndexError"]
    ELSE IF Len(data[1].v) = 0 THEN [ax |-> ax, err |-> "ZeroDivisionError"]
    ELSE LET m == SeriesDrawn(S, data)
         IN [ax |-> [ax EXCEPT !.bars =
                        @ \o [n \in 1..m |-> BarCall(S, data, origin, use_labels, n - 1)]],
             err |-> IF m < Len(data[1].v) THEN "IndexError" ELSE NoErr]

\* {x: self.bar_data[x] for x in groupxs}: a repeated x keeps its first place
RECURSIVE GroupData(_, _)
GroupData(bd, xs) ==
    IF xs = <<>> THEN <<>>
    ELSE LET front == GroupData(bd, SubSeq(xs, 1, Len(xs) - 1))
             x == xs[Len(xs)]
         IN IF HasKey(front, x) THEN front ELSE Append(front, [k |-> x, v |-> Get(bd, x)])

\* the y of a group's name: group_label_loc, or 20% of the y range below it
\* (in fifths of a y unit)
GroupLabelLoc(S, ax) ==
    IF S.group_label_loc.none
    THEN 5 * GetYlim(ax)[1] - (GetYlim(ax)[2] - GetYlim(ax)[1])
    ELSE 5 * S.group_label_loc.v

\* the loop over self.groups.items() in render, from group gi on
RECURSIVE RenderGroups(_, _, _, _, _, _)
RenderGroups(S, ax, gi, origin, xtick_locs, xtick_labels) ==
    IF gi > Len(S.groups.items)
    THEN [ax |-> [ax EXCEPT !.xticks = [auto |-> FALSE, locs |-> xtick_locs,
                                        labels |-> xtick_labels,
                                        settings |-> S.xtick_settings]],
          err |-> NoErr]
    ELSE LET g == S.groups.items[gi]
         IN IF \E j \in DOMAIN g.v : ~HasKey(S.bar_data, g.v[j])
            THEN [ax |-> ax, err |-> "KeyError"]
            ELSE LET data == GroupData(S.bar_data, g.v)
                     r == RenderSingle(S, ax, data, origin, origin = 0)
                     text == [x |-> U * origin + (U \div 2) * Len(data) - U \div 2,
                              y |-> GroupLabelLoc(S, r.ax),
                              s |-> g.k]
                 IN IF r.err # NoErr THEN r
                    ELSE RenderGroups(S, [r.ax EXCEPT !.texts = Append(@, text)], gi + 1,
                                      origin + Len(data) + S.group_spacing,
                                      xtick_locs \o [i \in 1..Len(g.v) |-> U * (origin + i - 1)],
                                      xtick_labels \o g.v)

\* Figure._render_post: the horizontal lines over the x limits, then the legend
RenderPost(S, ax) ==
    LET xlim == GetXlim(ax)
    IN [ax EXCEPT
          !.hlines = @ \o [h \in 1..Len(S._hlines) |->
                             [y |-> S._hlines[h].y, xmin |-> xlim[1], xmax |-> xlim[2],
                              kwargs |-> S._hlines[h].kwargs]],
          !.xlim = [auto |-> FALSE, lo |-> xlim[1], hi |-> xlim[2]],
          !.legend = [on |-> TRUE, settings |-> S.legend_settings,
                      entries |-> SelectSeq([b \in 1..Len(ax.bars) |-> ax.bars[b].label],
                                            LAMBDA l : l # NoLabel)]]

\* the body of render between _render_pre and _render_post
RenderBody(S, ax) ==
    IF S.groups.none
    THEN LET r == RenderSingle(S, ax, S.bar_data, 0, TRUE)
         IN IF r.err # NoErr THEN r
            ELSE [ax |-> [r.ax EXCEPT !.xticks =
                            [auto |-> FALSE,
                             locs |-> [i \in 1..Len(S.bar_data) |-> U * (i - 1)],
                             labels |-> [i \in 1..Len(S.bar_data) |-> S.bar_data[i].k],
                             settings |-> S.xtick_settings]],
                  err |-> NoErr]
    ELSE RenderGroups(S, ax, 1, 0, <<>>, <<>>)

\* Bar.render on the Bar S and the axes ax
Render(S, ax) ==
    LET body == RenderBody(S, RenderPre(ax))
    IN IF body.err # NoErr THEN body
       ELSE [ax |-> RenderPost(S, body.ax), err |-> NoErr]

\* ---------------------------------------------------------------- Bar
Figures == {"f1", "f2"}
OutFiles == {"None", "fig.pdf"}
\* values of rcParams['hatch.linewidth'] before any figure is entered, in tenths
RcValues == {10, 5}
\* the value __enter__ sets, in tenths
HatchWidth == 3

\* Figure.__init__ and Bar.__init__, then the spacing attributes as configured
NewBar(sp) ==
    [group_label_loc |-> [none |-> TRUE, v |-> 0],
     labels |-> <<>>,
     colors |-> <<>>,
     xtick_settings |-> EmptyDict,
     legend_settings |-> EmptyDict,
     _hlines |-> <<>>,
     bar_data |-> <<>>,
     hatches |-> <<>>,
     groups |-> [none |-> TRUE, items |-> <<>>],
     bar_spacing |-> sp.bar,
     group_spacing |-> sp.group,
     bar_settings |-> [align |-> "edge", edgecolor |-> "#030203", linewidth |-> 5]]

\* an operation called: its name, the label and the reverse flag of a sort,
\* whether it went as far as its self.render() call, and whether the axes it
\* then cleared carried a y limit or an axis label set by ylim, xlabel or ylabel
Op(name, label, reverse, rendered) ==
    [op |-> name, label |-> label, reverse |-> reverse, rendered |-> rendered,
     wiped |-> rendered /\ (~axes.ylim.auto \/ axes.xlabel # "" \/ axes.ylabel # "")]

\* d[x] = v on an OrderedDict: a new key goes last, an old one keeps its place
SetItem(d, x, v) ==
    IF HasKey(d, x)
    THEN [i \in DOMAIN d |-> IF d[i].k = x THEN [k |-> x, v |-> v] ELSE d[i]]
    ELSE Append(d, [k |-> x, v |-> v])

\* bar_data.setdefault(x, []); bar_data[x].append(y)
AppendValue(bd, x, y) ==
    SetItem(bd, x, IF HasKey(bd, x) THEN Append(Get(bd, x), y) ELSE <<y>>)

\* for x, y in zip(X, Y), from pair j on
RECURSIVE AddPairs(_, _, _, _)
AddPairs(bd, X, Y, j) ==
    IF j > Min(Len(X), Len(Y)) THEN bd
    ELSE AddPairs(AppendValue(bd, X[j], Y[j]), X, Y, j + 1)

\* the tail of every re-rendering operation: self.render()
Rendered ==
    \E r \in {Render(self', axes)} : axes' = r.ax /\ err' = r.err

Frame == UNCHANGED <<rc, figs, stack, out>>

add_series(X, Y, st) ==
    /\ Len(calls) < MaxSeries
    /\ self' = [self EXCEPT !.bar_data = AddPairs(@, X, Y, 1),
                            !.labels = Append(@, st.label),
                            !.colors = Append(@, st.color),
                            !.hatches = Append(@, st.hatch)]
    /\ calls' = Append(calls, [X |-> X, Y |-> Y, label |-> st.label,
                               color |-> st.color, hatch |-> st.hatch])
    /\ Rendered
    /\ last' = Op("add_series", NoLabel, FALSE, TRUE)
    /\ Frame

set_group(groupname, groupxs) ==
    /\ self' = [self EXCEPT !.groups = [none |-> FALSE,
                                        items |-> SetItem(@.items, groupname, groupxs)]]
    /\ Rendered
    /\ last' = Op("set_group", NoLabel, FALSE, TRUE)
    /\ UNCHANGED calls
    /\ Frame

\* ---------------------------------------------------------------- sort
RECURSIVE Perms(_)
Perms(n) ==
    IF n = 0 THEN {<<>>}
    ELSE UNION {{[i \in 1..n |-> IF i < k THEN p[i] ELSE IF i = k THEN n ELSE p[i - 1]] :
                   k \in 1..n} : p \in Perms(n - 1)}

\* np.argsort(keys): an order that puts keys small to large; which one among
\* equal keys is not specified for the default kind
ArgSort(keys) ==
    {p \in Perms(Len(keys)) : \A i \in 1..(Len(keys) - 1) : keys[p[i]] <= keys[p[i + 1]]}

\* a reordering that takes the first index of order every time
ReorderFirst(xs, order) == [i \in 1..Len(order) |-> xs[order[1]]]

\* [xs[i] for i in order]
Reorder(xs, order) == [i \in 1..Len(order) |-> xs[order[i]]]

\* self.labels.index(label), 1-based
LabelIndex(labels, label) ==
    CHOOSE i \in DOMAIN labels : labels[i] = label /\ \A j \in 1..(i - 1) : labels[j] # label

\* f = -1 if reverse else 1
SortFactor(reverse) == IF reverse THEN -1 ELSE 1

\* the keys of the sort without groups: [val[label_idx] for key, val in bar_data.items()]
PlainKeys(bd, idx, reverse) == [i \in DOMAIN bd |-> bd[i].v[idx]]

\* the keys of the sort of one group: [bar_data[x][label_idx] * f for x in groupxs]
GroupKeys(bd, xs, idx, reverse) ==
    [i \in DOMAIN xs |-> Get(bd, xs[i])[idx] * SortFactor(reverse)]

\* the loop over self.groups.items() in sort, from group gi on: the possible
\* (groups, exception) results
RECURSIVE SortGroups(_, _, _, _, _)
SortGroups(items, gi, bd, idx, reverse) ==
    IF gi > Len(items) THEN {[items |-> items, err |-> NoErr]}
    ELSE LET xs == items[gi].v
             bad == {j \in DOMAIN xs : ~HasKey(bd, xs[j]) \/ Len(Get(bd, xs[j])) < idx}
         IN IF bad # {}
            THEN {[items |-> items,
                   err |-> IF HasKey(bd, xs[SetMin(bad)]) THEN "IndexError" ELSE "KeyError"]}
            ELSE UNION {SortGroups([items EXCEPT ![gi].v = Reorder(xs, order)],
                                   gi + 1, bd, idx, reverse) :
                          order \in ArgSort(GroupKeys(bd, xs, idx, reverse))}

\* sort returns early: the exception e, nothing rendered
SortRaised(label, reverse, e) ==
    /\ err' = e
    /\ last' = Op("sort", label, reverse, FALSE)
    /\ UNCHANGED axes

sort(label, reverse) ==
    /\ UNCHANGED calls
    /\ Frame
    /\ IF \A i \in DOMAIN self.labels : self.labels[i] # label
       THEN SortRaised(label, reverse, "ValueError") /\ UNCHANGED self
       ELSE LET idx == LabelIndex(self.labels, label)
            IN IF self.groups.none
               THEN IF \E i \in DOMAIN self.bar_data : Len(self.bar_data[i].v) < idx
                    THEN SortRaised(label, reverse, "IndexError") /\ UNCHANGED self
                    ELSE \E order \in ArgSort(PlainKeys(self.bar_data, idx, reverse)) :
                            /\ self' = [self EXCEPT !.bar_data = Reorder(@, order)]
                            /\ Rendered
                            /\ last' = Op("sort", label, reverse, TRUE)
               ELSE \E res \in SortGroups(self.groups.items, 1, self.bar_data, idx, reverse) :
                       /\ self' = [self EXCEPT !.groups.items = res.items]
                       /\ IF res.err # NoErr
                          THEN SortRaised(label, reverse, res.err)
                          ELSE Rendered /\ last' = Op("sort", label, reverse, TRUE)

\* ---------------------------------------------------------------- the rest
HlineYs == {1}
HlineKwargs == {[color |-> "r"]}
XtickKwargs == {[rotation |-> 45]}
LegendKwargs == {[ncols |-> 3]}
BarKwargs == {[align |-> "center"]}
Limits == {<<0, 3>>}
AxisLabels == {"Radical"}

hlines(y, kwargs) ==
    /\ Len(self._hlines) < MaxHlines
    /\ self' = [self EXCEPT !._hlines = Append(@, [y |-> y, span |-> "None", kwargs |-> kwargs])]
    /\ Rendered
    /\ last' = Op("hlines", NoLabel, FALSE, TRUE)
    /\ UNCHANGED calls
    /\ Frame

set_xtick_settings(kwargs) ==
    /\ self' = [self EXCEPT !.xtick_settings = Update(@, kwargs)]
    /\ Rendered
    /\ last' = Op("set_xtick_settings", NoLabel, FALSE, TRUE)
    /\ UNCHANGED calls
    /\ Frame

set_legend_settings(kwargs) ==
    /\ self' = [self EXCEPT !.legend_settings = Update(@, kwargs)]
    /\ Rendered
    /\ last' = Op("set_legend_settings", NoLabel, FALSE, TRUE)
    /\ UNCHANGED calls
    /\ Frame

set_bar_settings(kwargs) ==
    /\ self' = [self EXCEPT !.bar_settings = Update(@, kwargs)]
    /\ Rendered
    /\ last' = Op("set_bar_settings", NoLabel, FALSE, TRUE)
    /\ UNCHANGED calls
    /\ Frame

\* ylim, xlim, ylabel, xlabel: one call on the axes, nothing stored in self
AxesOnly(name, ax) ==
    /\ axes' = ax
    /\ err' = NoErr
    /\ last' = Op(name, NoLabel, FALSE, FALSE)
    /\ UNCHANGED <<self, calls>>
    /\ Frame

ylim(lim) == AxesOnly("ylim", [axes EXCEPT !.ylim = [auto |-> FALSE, lo |-> lim[1], hi |-> lim[2]]])

xlim(lim) ==
    AxesOnly("xlim", [axes EXCEPT !.xlim = [auto |-> FALSE, lo |-> U * lim[1], hi |-> U * lim[2]]])

ylabel(s) == AxesOnly("ylabel", [axes EXCEPT !.ylabel = s])

xlabel(s) == AxesOnly("xlabel", [axes EXCEPT !.xlabel = s])

\* ---------------------------------------------------------------- context
\* Figure.__enter__ of figure f
enter(f) ==
    /\ Len(stack) < MaxDepth
    /\ figs' = [figs EXCEPT ![f]._old_hatch_width = rc]
    /\ rc' = HatchWidth
    /\ stack' = Append(stack, [fig |-> f, before |-> rc])
    /\ last' = Op("__enter__", f, FALSE, FALSE)
    /\ UNCHANGED <<self, axes, err, calls, out>>

\* what Figure.__exit__ restores
Restored(fig) == fig._old_hatch_width

\* Figure.__exit__ of the innermost with-block; raised: its body raised
exit(raised) ==
    /\ stack # <<>>
    /\ LET top == stack[Len(stack)]
           f == top.fig
       IN /\ out' = [fig |-> f,
                     shown |-> figs[f].out_file = "None",
                     saved |-> figs[f].out_file # "None",
                     before |-> top.before]
          /\ rc' = Restored(figs[f])
          /\ last' = Op("__exit__", f, raised, FALSE)
    /\ stack' = SubSeq(stack, 1, Len(stack) - 1)
    /\ UNCHANGED <<self, axes, err, calls, figs>>

\* ---------------------------------------------------------------- specifications
NoOp == Op("init", NoLabel, FALSE, FALSE)
NoOut == [fig |-> "None", shown |-> FALSE, saved |-> FALSE, before |-> 0]

InitBar ==
    /\ self \in {NewBar(sp) : sp \in Spacings}
    /\ axes = BlankAxes
    /\ err = NoErr
    /\ last = NoOp
    /\ calls = <<>>

Init ==
    /\ InitBar
    /\ rc = 10
    /\ figs = [f \in Figures |-> [out_file |-> "None", _old_hatch_width |-> 0]]
    /\ stack = <<>>
    /\ out = NoOut

\* the layout operations on all inputs
Next ==
    \/ \E in \in AddInputs, st \in Styles : add_series(in.X, in.Y, st)
    \/ \E g \in GroupNames, xs \in GroupLists : set_group(g, xs)
    \/ \E l \in SortLabels, r \in BOOLEAN : sort(l, r)

Spec == Init /\ [][Next]_vars

\* every operation of a Bar, the data from a smaller set
OpsInputs == {[X |-> <<"a", "b">>, Y |-> <<2, 1>>]}
OpsStyles == {[label |-> "s1", color |-> "red", hatch |-> "None"]}
OpsGroupNames == {"g1"}
OpsGroupLists == {<<>>, <<"b", "a">>}

NextOps ==
    \/ \E in \in OpsInputs, st \in OpsStyles : add_series(in.X, in.Y, st)
    \/ \E g \in OpsGroupNames, xs \in OpsGroupLists : set_group(g, xs)
    \/ \E l \in SortLabels, r \in BOOLEAN : sort(l, r)
    \/ \E y \in HlineYs, kw \in HlineKwargs : hlines(y, kw)
    \/ \E kw \in XtickKwargs : set_xtick_settings(kw)
    \/ \E kw \in LegendKwargs : set_legend_settings(kw)
    \/ \E kw \in BarKwargs : set_bar_settings(kw)
    \/ \E lim \in Limits : ylim(lim)
    \/ \E lim \in Limits : xlim(lim)
    \/ \E s \in AxisLabels : ylabel(s)
    \/ \E s \in AxisLabels : xlabel(s)

InitOps ==
    /\ Init
    /\ self = NewBar([bar |-> 25, group |-> 1])

SpecOps == InitOps /\ [][NextOps]_vars

InitCtx ==
    /\ self = NewBar([bar |-> 25, group |-> 1])
    /\ axes = BlankAxes
    /\ err = NoErr
    /\ last = NoOp
    /\ calls = <<>>
    /\ rc \in RcValues
    /\ figs \in [Figures -> {[out_file |-> o, _old_hatch_width |-> 0] : o \in OutFiles}]
    /\ stack = <<>>
    /\ out = NoOut

NextCtx ==
    \/ \E f \in Figures : enter(f)
    \/ \E raised \in BOOLEAN : exit(raised)

SpecCtx == InitCtx /\ [][NextCtx]_vars

\* ---------------------------------------------------------------- claims
RenderOps == {"add_series", "set_group", "sort", "hlines", "set_xtick_settings",
              "set_legend_settings", "set_bar_settings"}
AxesOps == {"ylim", "xlim", "ylabel", "xlabel"}

\* the value of label x in the series with 1-based index idx
ValueOf(x, idx) == Get(self.bar_data, x)[idx]

\* every label has one value per series added
Rectangular == \A i \in DOMAIN self.bar_data : Len(self.bar_data[i].v) = Len(self.labels)

\* value j of add_series call k is on the axes: a rectangle of that height in
\* the cluster at the tick labelled X[j], with the label, color and hatch of call k
ValueDrawn(k, j) ==
    \E b \in DOMAIN axes.bars, i \in DOMAIN axes.xticks.labels :
        /\ axes.bars[b].label = calls[k].label
        /\ axes.bars[b].color = calls[k].color
        /\ axes.bars[b].hatch = calls[k].hatch
        /\ axes.xticks.labels[i] = calls[k].X[j]
        /\ i \in DOMAIN axes.bars[b].height
        /\ axes.bars[b].height[i] = calls[k].Y[j]
        /\ axes.bars[b].loc[i] >= axes.xticks.locs[i] - U \div 2
        /\ axes.bars[b].loc[i] < axes.xticks.locs[i] + U \div 2

\* C1: after every sequence of add_series calls (no groups), whenever render
\* completes, every value Y[j] of every call k is drawn as a bar at the tick of
\* X[j] with the label, color and hatch of call k.
C1_EveryValueDrawn ==
    (self.groups.none /\ last.op = "add_series" /\ err = NoErr) =>
        \A k \in DOMAIN calls :
            \A j \in 1..Min(Len(calls[k].X), Len(calls[k].Y)) : ValueDrawn(k, j)

\* xs is ordered by the values of series idx: small to large, or large to
\* small when reverse
Ordered(xs, idx, reverse) ==
    \A i \in 1..(Len(xs) - 1) :
        IF reverse THEN ValueOf(xs[i], idx) >= ValueOf(xs[i + 1], idx)
        ELSE ValueOf(xs[i], idx) <= ValueOf(xs[i + 1], idx)

\* C2: after sort(label, reverse) returns, the x labels (without groups: of
\* bar_data; with groups: of every group) are ordered by their value in the
\* series label, small to large when reverse is False, large to small when True.
C2_SortOrdersByValue ==
    (last.op = "sort" /\ err = NoErr) =>
        LET idx == LabelIndex(self.labels, last.label)
        IN IF self.groups.none
           THEN Ordered([i \in DOMAIN self.bar_data |-> self.bar_data[i].k], idx, last.reverse)
           ELSE \A g \in DOMAIN self.groups.items :
                   Ordered(self.groups.items[g].v, idx, last.reverse)

\* C3: no operation raises: after every sequence of add_series, set_group, sort,
\* hlines and set_*_settings calls on a fresh Bar the last call returned normally.
C3_NeverRaises == err = NoErr

\* the data render hands to _render_single, call by call, when it completes
RenderedData ==
    IF self.groups.none THEN <<self.bar_data>>
    ELSE [g \in DOMAIN self.groups.items |->
            GroupData(self.bar_data, self.groups.items[g].v)]

\* the axes.bar calls made before _render_single call k
RECURSIVE BarsBefore(_, _)
BarsBefore(datas, k) ==
    IF k <= 1 THEN 0 ELSE BarsBefore(datas, k - 1) + Len(datas[k - 1][1].v)

\* the tick a bar call starts at: the integer its first rectangle is around
OriginOf(b) == (b.loc[1] + U \div 2) \div U

\* _render_single call k drew, for each of its n series, one rectangle per
\* label; at every position t the n rectangles have width (1-s)/n, follow each
\* other in series order without gap, and cover [t - 1/2 + s/2, t + 1/2 - s/2];
\* t is a tick carrying the label; the next cluster starts s further
ClustersCentered(datas, k) ==
    LET data == datas[k]
        n == Len(data[1].v)
        s == self.bar_spacing
        first == BarsBefore(datas, k)
    IN /\ first + n <= Len(axes.bars)
       /\ \A m \in 1..n :
            /\ Len(axes.bars[first + m].loc) = Len(data)
            /\ axes.bars[first + m].width * 100 * n = U * (100 - s)
            /\ axes.bars[first + m].color = self.colors[m]
            /\ axes.bars[first + m].hatch = self.hatches[m]
       /\ \A i \in 1..Len(data) :
            LET t == U * (OriginOf(axes.bars[first + 1]) + i - 1)
                left == axes.bars[first + 1].loc[i]
                right == axes.bars[first + n].loc[i] + axes.bars[first + n].width
            IN /\ \E j \in DOMAIN axes.xticks.locs :
                    axes.xticks.locs[j] = t /\ axes.xticks.labels[j] = data[i].k
               /\ 2 * left = 2 * t - U + (U \div 100) * s
               /\ 2 * right = 2 * t + U - (U \div 100) * s
               /\ \A m \in 1..n : axes.bars[first + m].height[i] = data[i].v[m]
               /\ \A m \in 1..(n - 1) :
                    axes.bars[first + m + 1].loc[i] =
                        axes.bars[first + m].loc[i] + axes.bars[first + m].width
               /\ i < Len(data) =>
                    axes.bars[first + 1].loc[i + 1] - right = (U \div 100) * s

\* no group list names a label twice
NoRepeats ==
    \A g \in DOMAIN self.groups.items :
        \A i, j \in DOMAIN self.groups.items[g].v :
            self.groups.items[g].v[i] = self.groups.items[g].v[j] => i = j

Drawn(ax) == [bars |-> ax.bars, xticks |-> ax.xticks, texts |-> ax.texts, hlines |-> ax.hlines]

RECURSIVE SizesBefore(_, _)
SizesBefore(items, g) ==
    IF g <= 1 THEN 0 ELSE SizesBefore(items, g - 1) + Len(items[g - 1].v)

\* the origin the claim gives group g (1-based)
ClaimedOrigin(g) ==
    SizesBefore(self.groups.items, g) + (g - 1) * self.group_spacing

RECURSIVE Concat(_, _)
Concat(seqs, n) == IF n = 0 THEN <<>> ELSE Concat(seqs, n - 1) \o seqs[n]

\* C6: with groups and group_spacing >= 0, after a render that completes: group i starts at the sum
\* of the sizes of the groups before it plus i * group_spacing, its labels have
\* ticks at origin .. origin+len-1 in list order, its name is at
\* origin + len/2 - 1/2; the ticks are strictly increasing; every bar drawn is
\* at a tick.
C6_GroupedLayout ==
    (~self.groups.none /\ last.rendered /\ err = NoErr /\ self.group_spacing >= 0) =>
        LET items == self.groups.items
            ticks(g) == [p \in 1..Len(items[g].v) |-> U * (ClaimedOrigin(g) + p - 1)]
        IN /\ axes.xticks.locs = Concat([g \in DOMAIN items |-> ticks(g)], Len(items))
           /\ axes.xticks.labels = Concat([g \in DOMAIN items |-> items[g].v], Len(items))
           /\ Len(axes.texts) = Len(items)
           /\ \A g \in DOMAIN items :
                /\ axes.texts[g].s = items[g].k
                /\ 2 * axes.texts[g].x = 2 * U * ClaimedOrigin(g) + U * Len(items[g].v) - U
           /\ \A j \in 1..(Len(axes.xticks.locs) - 1) :
                axes.xticks.locs[j] < axes.xticks.locs[j + 1]
           /\ \A b \in DOMAIN axes.bars : \A i \in DOMAIN axes.bars[b].loc :
                \E j \in DOMAIN axes.xticks.locs :
                    axes.xticks.locs[j] = U * (OriginOf(axes.bars[b]) + i - 1)

\* C7: with groups and one value per series for every label, after a render
\* that completes the legend labels handed to axes.bar are the series labels,
\* each once.
C7_LegendOncePerSeries ==
    (~self.groups.none /\ last.rendered /\ err = NoErr /\ Rectangular) =>
        axes.legend.entries = self.labels

\* t holds the items of s in some order
IsPermutation(s, t) ==
    /\ Len(s) = Len(t)
    /\ \E p \in Perms(Len(s)) : \A i \in DOMAIN t : t[i] = s[p[i]]

\* everything of a Bar but bar_data and groups
Others(S) == [S EXCEPT !.bar_data = <<>>, !.groups = [none |-> TRUE, items |-> <<>>]]

\* C8: sort only permutes. Without groups it changes only the order of the
\* items of bar_data; with groups it leaves bar_data and the order of the group
\* names alone and changes only the order inside each group. labels, colors,
\* hatches and all settings are unchanged.
C8_SortOnlyPermutes ==
    [][last'.op = "sort" =>
         /\ Others(self') = Others(self)
         /\ IF self.groups.none
            THEN /\ self'.groups = self.groups
                 /\ IsPermutation(self.bar_data, self'.bar_data)
            ELSE /\ self'.bar_data = self.bar_data
                 /\ ~self'.groups.none
                 /\ Len(self'.groups.items) = Len(self.groups.items)
                 /\ \A g \in DOMAIN self.groups.items :
                      /\ self'.groups.items[g].k = self.groups.items[g].k
                      /\ IsPermutation(self.groups.items[g].v, self'.groups.items[g].v)]_vars

\* a sort has put b before a, in the second of two groups and without touching
\* the first
C8_Witness ==
    /\ last.op = "sort" /\ err = NoErr
    /\ Len(self.groups.items) = 2
    /\ self.groups.items[1].v = <<"a", "a">>
    /\ self.groups.items[2].v = <<"b", "a">>

\* C9: after __exit__ rcParams['hatch.linewidth'] is what it was just before
\* the matching __enter__; inside a with-block it is 0.3; __exit__ saves and
\* does not show when out_file is set, shows and does not save otherwise.
C9_HatchWidthRestored ==
    /\ stack # <<>> => rc = HatchWidth
    /\ last.op = "__exit__" =>
         /\ rc = out.before
         /\ out.saved = (figs[out.fig].out_file # "None")
         /\ out.shown = (figs[out.fig].out_file = "None")
         /\ out.saved # out.shown

\* the x limits a render leaves: those of the bars when it completes, the
\* cleared ones when it raises
RenderedXlim ==
    IF err = NoErr
    THEN [auto |-> FALSE, lo |-> GetXlim([axes EXCEPT !.xlim = BlankAxes.xlim])[1],
          hi |-> GetXlim([axes EXCEPT !.xlim = BlankAxes.xlim])[2]]
    ELSE BlankAxes.xlim

====
